---- MODULE Spec2Model ----
(***************************************************************************)
(* Community Energy Toolkit (Streamlit): the session state shared by the   *)
(* Home page, the PDF Analyzer, the Geographic Calculator and the LSTM     *)
(* Time-Series Predictor, and the predictor's rolling forecast loop.       *)
(*                                                                         *)
(* Numbers.  Python floats are modelled as exact rationals <<n, d>> with   *)
(* d > 0 in lowest terms; float rounding is not modelled.  The jitter      *)
(* drawn by np.random.normal after np.random.seed(42 + i) is tabulated     *)
(* from numpy's generator (MT19937, legacy polar Box-Muller), rounded to   *)
(* four decimals.                                                          *)
(***************************************************************************)
EXTENDS Integers, Sequences, FiniteSets, TLC

VARIABLES
    geo_data,               \* st.session_state.geo_data (dict)
    pdf_extracted,          \* st.session_state.pdf_extracted (dict)
    predictions,            \* st.session_state.predictions (dict)
    form,                   \* the calculator's widget values (form_* keys, sliders)
    TENSORFLOW_AVAILABLE,   \* result of the tensorflow import
    cache,                  \* st.cache_resource entry of load_lstm_model
    rng,                    \* state of numpy's global generator (np.random)
    calculation,            \* locals of Calculate Energy Potential on the page
    batch_df,               \* the uploaded CSV of the batch analysis
    results,                \* rows of the batch analysis on the page
    document,               \* the PDF in the analyzer's uploader, as its patterns read it
    view,                   \* what the last script run rendered
    pc,                     \* position of the Generate LSTM Forecast handler
    forecast_months, start_month_num, climate_scenario,
    base_power_mw, waterfall_mw, geo_mw, location_name,
    months, temperatures, rainfalls,
    i, current_sequence,
    predictions_mwh, confidence_lower, confidence_upper,
    waterfall_ratio, geo_ratio

session == <<geo_data, pdf_extracted, predictions, form>>
loader  == <<TENSORFLOW_AVAILABLE, cache>>
inputs  == <<forecast_months, start_month_num, climate_scenario,
             base_power_mw, waterfall_mw, geo_mw, location_name,
             months, temperatures, rainfalls>>
loop    == <<i, current_sequence, predictions_mwh, confidence_lower, confidence_upper,
             waterfall_ratio, geo_ratio>>
shown   == <<calculation, batch_df, results>>
vars    == <<session, loader, rng, shown, document, view, pc, inputs, loop>>

----------------------------------------------------------------------------
(* Float arithmetic, as exact rationals.                                   *)

Abs(x) == IF x < 0 THEN -x ELSE x

RECURSIVE GCD(_, _)
GCD(a, b) == IF b = 0 THEN a ELSE GCD(b, a % b)

Rat(n, d) == IF n = 0 THEN <<0, 1>>
             ELSE LET c == GCD(Abs(n), d) IN <<n \div c, d \div c>>

Int2Rat(n) == <<n, 1>>

RMul(a, b) ==
    IF a[1] = 0 \/ b[1] = 0 THEN <<0, 1>>
    ELSE LET c1 == GCD(Abs(a[1]), b[2])
             c2 == GCD(Abs(b[1]), a[2])
         IN  <<(a[1] \div c1) * (b[1] \div c2), (a[2] \div c2) * (b[2] \div c1)>>

\* a / b for b # 0
RDiv(a, b) == IF b[1] > 0 THEN RMul(a, <<b[2], b[1]>>)
              ELSE RMul(a, <<-b[2], -b[1]>>)

RAdd(a, b) ==
    LET c == GCD(a[2], b[2])
    IN  Rat(a[1] * (b[2] \div c) + b[1] * (a[2] \div c), (a[2] \div c) * b[2])

RNeg(a) == <<-a[1], a[2]>>

RSub(a, b) == RAdd(a, RNeg(b))

RLt(a, b) == RSub(a, b)[1] < 0

RLe(a, b) == RSub(a, b)[1] <= 0

\* Python's sum(): left to right from 0
RECURSIVE RSum(_)
RSum(s) == IF s = <<>> THEN <<0, 1>>
           ELSE RAdd(RSum(SubSeq(s, 1, Len(s) - 1)), s[Len(s)])

\* int(x): truncation toward zero
IntOf(x) == IF x[1] < 0 THEN -((-x[1]) \div x[2]) ELSE x[1] \div x[2]

----------------------------------------------------------------------------
(* Python dicts: functions from string keys.                               *)

EmptyDict == [k \in {} |-> 0]

\* d[k] = v
DictSet(d, k, v) == [x \in DOMAIN d \cup {k} |-> IF x = k THEN v ELSE d[x]]

\* d.get(k, default)
DictGet(d, k, default) == IF k \in DOMAIN d THEN d[k] ELSE default

\* bool(d) of a dict
Truthy(d) == DOMAIN d # {}

\* bool(s) of a str or None
StrTruthy(s) == s \notin {"None", ""}

----------------------------------------------------------------------------
(* Geographic Calculator: Calculate Energy Potential.                      *)

rho == 1000
g == Rat(981, 100)
specific_heat == Rat(418, 100)
surface_temp == 25
flow_rate_geo == 50
HouseholdMWh == Rat(72, 10)
WasteFraction_Tenth == Rat(10, 100)

WasteFraction == Rat(5, 100)

Households_NoKWh(E) == IntOf(RDiv(E, HouseholdMWh))

\* int(E * 1000 / 7.2)
Households(E) == IntOf(RDiv(RMul(E, Int2Rat(1000)), HouseholdMWh))

PipeMaterial_Inclusive(geo_temp) ==
    IF RLe(geo_temp, Int2Rat(300)) THEN "Stainless Steel / Incoloy"
    ELSE IF RLe(geo_temp, Int2Rat(600)) THEN "Inconel alloys / Nickel-chromium"
    ELSE "Ceramic composites / SiC / Titanium alloys"

PipeMaterial(geo_temp) ==
    IF RLt(geo_temp, Int2Rat(300)) THEN "Stainless Steel / Incoloy"
    ELSE IF RLt(geo_temp, Int2Rat(600)) THEN "Inconel alloys / Nickel-chromium"
    ELSE "Ceramic composites / SiC / Titanium alloys"

RelativeCost(geo_temp) ==
    IF RLt(geo_temp, Int2Rat(300)) THEN Rat(10, 10)
    ELSE IF RLt(geo_temp, Int2Rat(600)) THEN Rat(25, 10)
    ELSE Rat(50, 10)

WaterfallPowerMW_NoEfficiency(waterfall_flow, waterfall_height, turbine_efficiency) ==
    RDiv(RMul(RMul(RMul(Int2Rat(rho), g), waterfall_flow), waterfall_height),
         Int2Rat(1000000))

\* P_waterfall_watts / 1_000_000
WaterfallPowerMW(waterfall_flow, waterfall_height, turbine_efficiency) ==
    RDiv(RMul(RMul(RMul(RMul(Int2Rat(rho), g), waterfall_flow),
                   waterfall_height), turbine_efficiency),
         Int2Rat(1000000))

\* flow_rate_geo * specific_heat * (geo_temp - surface_temp)
ThermalPowerKW(geo_temp) ==
    RMul(RMul(Int2Rat(flow_rate_geo), specific_heat),
         RSub(geo_temp, Int2Rat(surface_temp)))

GeoAnnualMWh_NoCapacityFactor(P_geo_MW, capacity_factor) ==
    RMul(RMul(P_geo_MW, Int2Rat(24)), Int2Rat(365))

\* P_geo_MW * 24 * 365 * capacity_factor
GeoAnnualMWh(P_geo_MW, capacity_factor) ==
    RMul(RMul(RMul(P_geo_MW, Int2Rat(24)), Int2Rat(365)), capacity_factor)

\* a local the branch taken never assigned
Unbound == "unbound"

\* the locals of the Calculate Energy Potential handler after the totals
CalculateLocals(waterfall_height, waterfall_flow, geo_temp, depth, turbine_efficiency, geo_efficiency, capacity_factor) ==
    LET has_waterfall == RLt(<<0, 1>>, waterfall_height) /\ RLt(<<0, 1>>, waterfall_flow)
        P_waterfall_MW ==
            IF has_waterfall
            THEN WaterfallPowerMW(waterfall_flow, waterfall_height, turbine_efficiency)
            ELSE <<0, 1>>
        E_waterfall_year_MWh ==
            IF has_waterfall THEN RMul(RMul(P_waterfall_MW, Int2Rat(24)), Int2Rat(365))
            ELSE <<0, 1>>
        has_geothermal == RLt(Int2Rat(50), geo_temp) /\ RLt(<<0, 1>>, depth)
        thermal_power_kW == ThermalPowerKW(geo_temp)
        P_geo_MW ==
            IF has_geothermal
            THEN RDiv(RMul(thermal_power_kW, geo_efficiency), Int2Rat(1000))
            ELSE <<0, 1>>
        E_geo_year_MWh ==
            IF has_geothermal THEN GeoAnnualMWh(P_geo_MW, capacity_factor)
            ELSE <<0, 1>>
        E_waste_recovered_MWh ==
            RMul(RAdd(E_waterfall_year_MWh, E_geo_year_MWh), WasteFraction)
        P_total_MW == RAdd(P_waterfall_MW, P_geo_MW)
        E_total_year_MWh ==
            RAdd(RAdd(E_waterfall_year_MWh, E_geo_year_MWh), E_waste_recovered_MWh)
    IN  [waterfall_height      |-> waterfall_height,
         waterfall_flow        |-> waterfall_flow,
         geo_temp              |-> geo_temp,
         depth                 |-> depth,
         turbine_efficiency    |-> turbine_efficiency,
         geo_efficiency        |-> geo_efficiency,
         capacity_factor       |-> capacity_factor,
         P_waterfall_MW        |-> P_waterfall_MW,
         E_waterfall_year_MWh  |-> E_waterfall_year_MWh,
         households_waterfall  |-> IF has_waterfall THEN Households(E_waterfall_year_MWh)
                                   ELSE 0,
         has_waterfall         |-> has_waterfall,
         thermal_power_kW      |-> IF has_geothermal THEN thermal_power_kW ELSE Unbound,
         P_geo_MW              |-> P_geo_MW,
         E_geo_year_MWh        |-> E_geo_year_MWh,
         households_geo        |-> IF has_geothermal THEN Households(E_geo_year_MWh)
                                   ELSE 0,
         pipe_material         |-> IF has_geothermal THEN PipeMaterial(geo_temp) ELSE "N/A",
         relative_cost         |-> IF has_geothermal THEN RelativeCost(geo_temp)
                                   ELSE <<0, 1>>,
         has_geothermal        |-> has_geothermal,
         E_waste_recovered_MWh |-> E_waste_recovered_MWh,
         households_waste      |-> Households(E_waste_recovered_MWh),
         P_total_MW            |-> P_total_MW,
         E_total_year_MWh      |-> E_total_year_MWh,
         households_total      |-> Households(E_total_year_MWh)]

\* the dict assigned to st.session_state.geo_data
EnergyEstimate(name, latitude, longitude, waterfall_height, waterfall_flow, geo_temp, depth, turbine_efficiency, geo_efficiency, capacity_factor) ==
    LET c == CalculateLocals(waterfall_height, waterfall_flow, geo_temp, depth,
                             turbine_efficiency, geo_efficiency, capacity_factor)
    IN  [location_name         |-> name,
         latitude              |-> latitude,
         longitude             |-> longitude,
         waterfall_height      |-> waterfall_height,
         waterfall_flow        |-> waterfall_flow,
         geo_temp              |-> geo_temp,
         depth                 |-> depth,
         P_waterfall_MW        |-> c.P_waterfall_MW,
         P_geo_MW              |-> c.P_geo_MW,
         P_total_MW            |-> c.P_total_MW,
         E_waterfall_year_MWh  |-> c.E_waterfall_year_MWh,
         E_geo_year_MWh        |-> c.E_geo_year_MWh,
         E_waste_recovered_MWh |-> c.E_waste_recovered_MWh,
         E_total_year_MWh      |-> c.E_total_year_MWh,
         households_total      |-> c.households_total,
         pipe_material         |-> c.pipe_material,
         has_waterfall         |-> c.has_waterfall,
         has_geothermal        |-> c.has_geothermal]

\* the four keys Calculate writes into st.session_state.predictions
CalculatorPredictions(preds, estimate) ==
    DictSet(DictSet(DictSet(DictSet(preds,
        "waterfall_mw", estimate.P_waterfall_MW),
        "geo_mw", estimate.P_geo_MW),
        "total_annual_mwh", estimate.E_total_year_MWh),
        "location", estimate.location_name)

\* values entered in the calculator form
LocationNames == {"My Location", "Site B"}
FlowRates == {<<0, 1>>, <<10, 1>>}
Heights == {<<50, 1>>}
GeoTemps == {<<0, 1>>, <<200, 1>>}
Depths == {<<3, 1>>}
DefaultLatitude == Rat(238103, 10000)
DefaultLongitude == Rat(904125, 10000)
DefaultTurbineEfficiency == Rat(90, 100)
DefaultGeoEfficiency == Rat(15, 100)
DefaultCapacityFactor == Rat(85, 100)

\* the values of the calculator's widgets when a button is pressed
Form(name, h, q, t, d, te, ge, cf) ==
    [location_name      |-> name,
     latitude           |-> DefaultLatitude,
     longitude          |-> DefaultLongitude,
     waterfall_height   |-> h,
     waterfall_flow     |-> q,
     geo_temp           |-> t,
     depth              |-> d,
     turbine_efficiency |-> te,
     geo_efficiency     |-> ge,
     capacity_factor    |-> cf]

\* the widgets' initial values under Manual Entry
DefaultForm ==
    Form("My Location", <<50, 1>>, <<10, 1>>, <<200, 1>>, <<3, 1>>,
         DefaultTurbineEfficiency, DefaultGeoEfficiency, DefaultCapacityFactor)

\* the forms tried in the session
SessionForms ==
    {Form(n, h, q, t, d, DefaultTurbineEfficiency, DefaultGeoEfficiency,
          DefaultCapacityFactor) :
        n \in LocationNames, h \in Heights, q \in FlowRates,
        t \in GeoTemps, d \in Depths}

\* the forms tried on the calculator alone: number_input and slider ranges
CalculatorHeights == {<<0, 1>>, <<50, 1>>}
CalculatorFlows == {<<0, 1>>, <<10, 1>>}
CalculatorTemps ==
    {<<0, 1>>, <<49, 1>>, <<50, 1>>, <<101, 2>>, <<51, 1>>, <<200, 1>>,
     <<299, 1>>, <<300, 1>>, <<599, 1>>, <<600, 1>>, <<900, 1>>}
CalculatorDepths == {<<1, 2>>, <<3, 1>>}
TurbineEfficiencies == {<<1, 2>>, <<9, 10>>}
GeoEfficiencies == {<<1, 10>>, <<3, 20>>}
CapacityFactors == {<<1, 2>>, <<17, 20>>}

\* temperatures tried with every efficiency and capacity factor
RoundTemps == {<<0, 1>>, <<50, 1>>, <<200, 1>>, <<300, 1>>, <<600, 1>>, <<900, 1>>}

CalculatorForms ==
    {Form("My Location", h, q, t, d, te, <<1, 10>>, <<1, 2>>) :
        h \in CalculatorHeights, q \in CalculatorFlows, t \in CalculatorTemps,
        d \in CalculatorDepths, te \in TurbineEfficiencies}
    \cup
    {Form("My Location", h, q, t, d, te, ge, cf) :
        h \in CalculatorHeights, q \in CalculatorFlows, t \in RoundTemps,
        d \in CalculatorDepths, te \in TurbineEfficiencies,
        ge \in GeoEfficiencies, cf \in CapacityFactors}

EstimateOf(entered) ==
    EnergyEstimate(entered.location_name, entered.latitude, entered.longitude,
                   entered.waterfall_height, entered.waterfall_flow, entered.geo_temp,
                   entered.depth, entered.turbine_efficiency, entered.geo_efficiency,
                   entered.capacity_factor)

LocalsOf(entered) ==
    CalculateLocals(entered.waterfall_height, entered.waterfall_flow, entered.geo_temp,
                    entered.depth, entered.turbine_efficiency, entered.geo_efficiency,
                    entered.capacity_factor)

Estimates == {EstimateOf(entered) : entered \in SessionForms}

----------------------------------------------------------------------------
(* Geographic Calculator: batch analysis of an uploaded CSV.               *)

\* floor(x)
Floor(x) == x[1] \div x[2]

\* round(x, 0): to the nearest integer, ties to the even one
RoundHalfEven(x) ==
    LET fl == Floor(x)
        twice_rem == 2 * (x[1] - fl * x[2])
    IN  IF twice_rem < x[2] THEN fl
        ELSE IF twice_rem > x[2] THEN fl + 1
        ELSE IF fl % 2 = 0 THEN fl ELSE fl + 1

\* round(x, 2)
Round2(x) == Rat(RoundHalfEven(RMul(x, Int2Rat(100))), 100)

BatchMaterial_Inclusive(temp) ==
    IF RLe(temp, Int2Rat(300)) THEN "Stainless Steel"
    ELSE IF RLe(temp, Int2Rat(600)) THEN "Inconel alloys"
    ELSE "Ceramic composites"

BatchMaterial(temp) ==
    IF RLt(temp, Int2Rat(300)) THEN "Stainless Steel"
    ELSE IF RLt(temp, Int2Rat(600)) THEN "Inconel alloys"
    ELSE "Ceramic composites"

\* the dict appended to results for one row of batch_df
BatchResult(row) ==
    LET h == row.waterfall_height_m
        q == row.waterfall_flow_m3s
        temp == row.geo_temp_c
        has_flow == RLt(<<0, 1>>, h) /\ RLt(<<0, 1>>, q)
        p_waterfall ==
            IF has_flow
            THEN RDiv(RMul(RMul(RMul(RMul(Int2Rat(1000), Rat(981, 100)), q), h),
                           Rat(9, 10)), Int2Rat(1000000))
            ELSE <<0, 1>>
        e_waterfall ==
            IF has_flow THEN RMul(RMul(p_waterfall, Int2Rat(24)), Int2Rat(365))
            ELSE <<0, 1>>
        hot == RLt(Int2Rat(50), temp)
        p_geo ==
            IF hot
            THEN RDiv(RMul(RMul(RMul(Int2Rat(50), Rat(418, 100)),
                                RSub(temp, Int2Rat(25))), Rat(15, 100)),
                      Int2Rat(1000))
            ELSE <<0, 1>>
        e_geo ==
            IF hot
            THEN RMul(RMul(RMul(p_geo, Int2Rat(24)), Int2Rat(365)), Rat(85, 100))
            ELSE <<0, 1>>
        e_waste == RMul(RAdd(e_waterfall, e_geo), Rat(5, 100))
        total_annual == RAdd(RAdd(e_waterfall, e_geo), e_waste)
    IN  [Location         |-> row.location_name,
         Latitude         |-> row.latitude,
         Longitude        |-> row.longitude,
         Waterfall_MW     |-> Round2(p_waterfall),
         Geothermal_MW    |-> Round2(p_geo),
         Total_Annual_MWh |-> Int2Rat(RoundHalfEven(total_annual)),
         Households       |-> IntOf(RDiv(RMul(total_annual, Int2Rat(1000)), Rat(72, 10))),
         Pipe_Material    |-> IF hot THEN BatchMaterial(temp) ELSE "N/A"]

MaxRows == 2

\* rows of an uploaded CSV with every column present
BatchRows ==
    {[location_name      |-> "Khulna Region",
      latitude           |-> Rat(228456, 10000),
      longitude          |-> Rat(895403, 10000),
      waterfall_height_m |-> h,
      waterfall_flow_m3s |-> q,
      geo_temp_c         |-> temp,
      depth_km           |-> Rat(35, 10)] :
        h \in {<<0, 1>>, <<50, 1>>}, q \in {<<10, 1>>},
        temp \in {<<0, 1>>, <<50, 1>>, <<200, 1>>, <<300, 1>>, <<600, 1>>}}

BatchFrames == UNION {[1..n -> BatchRows] : n \in 1..MaxRows}

----------------------------------------------------------------------------
(* PDF Analyzer: field extraction and Send Data to Geographic Calculator.  *)

\* A document as the page's patterns read it: per field the re.findall
\* result of the first pattern that matches (<<>> when none does), each
\* match held by the number float() or int() gives it, the coordinate
\* matches, and the text of the Location Name box.
Document(name, flow, height, temp_range, temp_single, drilling, lat, lon, location) ==
    [name |-> name,
     flow_matches |-> flow,
     height_matches |-> height,
     temp_range_matches |-> temp_range,
     temp_single_matches |-> temp_single,
     depth_drilling_matches |-> drilling,
     depth_range_matches |-> <<>>,
     depth_single_matches |-> <<>>,
     lat_match |-> lat,
     lon_match |-> lon,
     location_name |-> location]

\* no file in the uploader
NoDocument == Document("None", <<>>, <<>>, <<>>, <<>>, <<>>, <<>>, <<>>, "Extracted Location")

\* the mean of a matched range
RangeAverage(pair) == RDiv(RAdd(pair[1], pair[2]), Int2Rat(2))

waterfall_flow(doc) == IF doc.flow_matches # <<>> THEN doc.flow_matches[1] ELSE <<0, 1>>

waterfall_height(doc) == IF doc.height_matches # <<>> THEN doc.height_matches[1] ELSE <<0, 1>>

avg_temp(doc) ==
    IF doc.temp_range_matches # <<>> THEN RangeAverage(doc.temp_range_matches[1])
    ELSE IF doc.temp_single_matches # <<>> THEN doc.temp_single_matches[1]
    ELSE <<0, 1>>

avg_depth(doc) ==
    IF doc.depth_drilling_matches # <<>> THEN doc.depth_drilling_matches[1]
    ELSE IF doc.depth_range_matches # <<>> THEN RangeAverage(doc.depth_range_matches[1])
    ELSE IF doc.depth_single_matches # <<>> THEN doc.depth_single_matches[1]
    ELSE <<3, 1>>

coords_found(doc) == doc.lat_match # <<>> \/ doc.lon_match # <<>>

\* the latitude read from the text is out of range: the page says
\* "ERROR: Invalid latitude" and goes on
InvalidLatitude(doc) ==
    /\ coords_found(doc)
    /\ doc.lat_match # <<>>
    /\ (RLt(doc.lat_match[1], Int2Rat(-90)) \/ RLt(Int2Rat(90), doc.lat_match[1]))

InvalidLongitude(doc) ==
    /\ coords_found(doc)
    /\ doc.lon_match # <<>>
    /\ (RLt(doc.lon_match[1], Int2Rat(-180)) \/ RLt(Int2Rat(180), doc.lon_match[1]))

\* the value the Latitude box opens with
default_lat(doc) ==
    IF doc.lat_match = <<>> \/ InvalidLatitude(doc) THEN DefaultLatitude ELSE doc.lat_match[1]

default_lon(doc) ==
    IF doc.lon_match = <<>> \/ InvalidLongitude(doc) THEN DefaultLongitude ELSE doc.lon_match[1]

\* the dict the page builds on every run with a file in the uploader, the
\* boxes left as they open
extracted_data(doc) ==
    [k \in {"waterfall_flow", "waterfall_height", "geo_temp", "depth",
            "location_name", "latitude", "longitude"} |->
        CASE k = "waterfall_flow" -> waterfall_flow(doc)
          [] k = "waterfall_height" -> waterfall_height(doc)
          [] k = "geo_temp" -> avg_temp(doc)
          [] k = "depth" -> avg_depth(doc)
          [] k = "location_name" -> doc.location_name
          [] k = "latitude" -> default_lat(doc)
          [] k = "longitude" -> default_lon(doc)]

\* str.strip() == "" for the names a Location Name box is given here
Blank(name) == name \in {"", " ", "  "}

has_waterfall(data) ==
    RLt(<<0, 1>>, data["waterfall_flow"]) /\ RLt(<<0, 1>>, data["waterfall_height"])

has_geothermal(data) == RLe(Int2Rat(50), data["geo_temp"])

\* flow without height, or height without flow
IncompleteWaterfall(data) ==
    \/ RLt(<<0, 1>>, data["waterfall_flow"]) /\ data["waterfall_height"] = <<0, 1>>
    \/ data["waterfall_flow"] = <<0, 1>> /\ RLt(<<0, 1>>, data["waterfall_height"])

\* the messages the Send handler collects, in order
validation_errors(data) ==
    (IF Blank(data["location_name"]) THEN <<"ERROR: Location name is required">> ELSE <<>>)
    \o (IF ~has_waterfall(data) /\ ~has_geothermal(data)
        THEN <<"ERROR: No viable energy source">> ELSE <<>>)
    \o (IF IncompleteWaterfall(data)
        THEN <<"WARNING: Incomplete waterfall data">> ELSE <<>>)

\* error.startswith("ERROR")
StartsWithError(message) ==
    message \in {"ERROR: Location name is required", "ERROR: No viable energy source"}

critical_errors_NameOptional(data) ==
    SelectSeq(validation_errors(data), LAMBDA e : e = "ERROR: No viable energy source")

critical_errors(data) == SelectSeq(validation_errors(data), StartsWithError)

\* the point the map was clicked at
ClickedPoint == [lat |-> Rat(225, 10), lng |-> Rat(915, 10)]

----------------------------------------------------------------------------
(* Time-Series Predictor: page gate and model loading.                     *)

Unloaded == [model |-> "None", error |-> "unloaded"]

\* the opaque trained artifacts a deployment may hold
Models == {"flat", "seasonal"}

\* what load_lstm_model can return: (model, scaler_X, scaler_y, None) or
\* (None, None, None, str(e)) for any exception e, str(e) possibly empty
LoadOutcomes ==
    {[model |-> m, error |-> "None"] : m \in Models}
    \cup {[model |-> "None", error |-> e] : e \in {"", "No such file"}}

has_geo_data_Viable(gd) ==
    /\ Truthy(gd)
    /\ "P_total_MW" \in DOMAIN gd
    /\ gd["P_total_MW"][1] > 0

has_geo_data_AnyKey(gd) == Truthy(gd)

has_geo_data(gd) == Truthy(gd) /\ "P_total_MW" \in DOMAIN gd

\* where a run of the predictor script gets to, given the cache entry it uses
PredictorOutcome(gd, tf, entry) ==
    IF ~has_geo_data(gd) THEN "gate"
    ELSE IF ~tf THEN "no_tensorflow"
    ELSE IF StrTruthy(entry.error) THEN "load_error"
    ELSE "controls"

\* views in which the Generate LSTM Forecast button is on the page
ControlsViews == {"controls", "forecast", "exception"}

----------------------------------------------------------------------------
(* Time-Series Predictor: climate scenario generation.                     *)

SliderMin == 3
SliderMax == 24
hours_per_month == 730
ReferenceMWh == 3500

month_names == <<"Jan", "Feb", "Mar", "Apr", "May", "Jun",
                 "Jul", "Aug", "Sep", "Oct", "Nov", "Dec">>

bangladesh_climate ==
    << <<19, 20>>,  <<22, 25>>,  <<26, 50>>,  <<28, 100>>,
       <<28, 250>>, <<28, 350>>, <<28, 400>>, <<28, 350>>,
       <<27, 300>>, <<26, 150>>, <<23, 30>>,  <<20, 15>> >>

Scenarios == {"Normal", "Wetter (More Monsoon)", "Drier (Less Rain)", "Hotter"}

climate_adjustments(scenario) ==
    CASE scenario = "Normal"                -> <<Rat(10, 10), Rat(10, 10)>>
      [] scenario = "Wetter (More Monsoon)" -> <<Rat(10, 10), Rat(13, 10)>>
      [] scenario = "Drier (Less Rain)"     -> <<Rat(10, 10), Rat(7, 10)>>
      [] scenario = "Hotter"                -> <<Rat(11, 10), Rat(9, 10)>>

\* np.random.seed(42 + k); np.random.normal(1.0, 0.05), in 1/10000, k = 0..23
NormalTempTable ==
    <<10248, 10129, 9625, 10013, 10292, 9576, 9503, 9478, 9220, 9855, 10260,
      10103, 9074, 9188, 9481, 9934, 9620, 9165, 9539, 9784, 9994, 8931,
      10550, 9583>>

\* the second draw after the same seed: np.random.normal(1.0, 0.1)
NormalRainTable ==
    <<9862, 9092, 11316, 10260, 11231, 11306, 8937, 9179, 9969, 10112, 8731,
      11167, 8919, 9898, 10594, 9799, 7898, 10563, 9414, 10439, 9472, 11112,
      8017, 9458>>

NormalTemp(k) == Rat(NormalTempTable[k + 1], 10000)

NormalRain(k) == Rat(NormalRainTable[k + 1], 10000)

\* The generator's state is kept as the last seed and the number of normal
\* draws taken since.  The code draws exactly twice after each seed; the
\* stream after seed s is taken to continue with the draws of seed s + 1.
TableIndex(state) == (state.seed - 42 + (state.drawn \div 2)) % 24

\* the process starts with a generator seeded from the system's entropy
InitialGenerators == {[seed |-> 42, drawn |-> 0], [seed |-> 50, drawn |-> 0]}

seed_Skipped(state, s) == state

\* np.random.seed(s)
seed(state, s) == [seed |-> s, drawn |-> 0]

\* np.random.normal(1.0, 0.05) and np.random.normal(1.0, 0.1): the value
\* drawn in a state, and the state it leaves
normal(state) ==
    [value |-> IF state.drawn % 2 = 0 THEN NormalTemp(TableIndex(state))
               ELSE NormalRain(TableIndex(state)),
     state |-> [seed |-> state.seed, drawn |-> state.drawn + 1]]

\* month_num of forecast step k (0-based)
MonthNum(start, k) == ((start + k - 1) % 12) + 1

MonthLabel_YearFromStep(start, k) ==
    <<month_names[MonthNum(start, k)], (k \div 12) + 1>>

\* month_label of step k: the month name and the number after "Y"
MonthLabel(start, k) ==
    <<month_names[MonthNum(start, k)], ((start + k - 1) \div 12) + 1>>

ForecastTemp(start, scenario, k) ==
    RMul(RMul(Int2Rat(bangladesh_climate[MonthNum(start, k)][1]),
              climate_adjustments(scenario)[1]), NormalTemp(k))

ForecastRain(start, scenario, k) ==
    RMul(RMul(Int2Rat(bangladesh_climate[MonthNum(start, k)][2]),
              climate_adjustments(scenario)[2]), NormalRain(k))

\* the climate generation loop from step k on: the lists and the generator
\* after range(N) is exhausted
RECURSIVE ClimateLoop(_, _, _, _, _)
ClimateLoop(k, N, start, scenario, acc) ==
    IF k >= N THEN acc
    ELSE LET month_num == MonthNum(start, k)
             seeded == seed(acc.rng, 42 + k)
             temp_noise == normal(seeded)
             rain_noise == normal(temp_noise.state)
             temp == RMul(RMul(Int2Rat(bangladesh_climate[month_num][1]),
                               climate_adjustments(scenario)[1]), temp_noise.value)
             rain == RMul(RMul(Int2Rat(bangladesh_climate[month_num][2]),
                               climate_adjustments(scenario)[2]), rain_noise.value)
         IN  ClimateLoop(k + 1, N, start, scenario,
                         [months       |-> Append(acc.months, MonthLabel(start, k)),
                          temperatures |-> Append(acc.temperatures, temp),
                          rainfalls    |-> Append(acc.rainfalls, rain),
                          rng          |-> rain_noise.state])

HistoricalMonthNum_UpToStart(start, k) ==
    IF (start - k + 1) % 12 = 0 THEN 12 ELSE (start - k + 1) % 12

\* month_num of the entry appended for loop value k = 12, 11, ..., 1
HistoricalMonthNum(start, k) ==
    IF (start - k) % 12 = 0 THEN 12 ELSE (start - k) % 12

historical_months(start) ==
    [j \in 1..12 |->
        <<Int2Rat(bangladesh_climate[HistoricalMonthNum(start, 13 - j)][1]),
          Int2Rat(bangladesh_climate[HistoricalMonthNum(start, 13 - j)][2])>>]

----------------------------------------------------------------------------
(* Time-Series Predictor: the rolling forecast loop.                       *)

\* rows of the window with at least r mm of rain / at least t degrees
WetMonths(window) == Cardinality({j \in 1..Len(window) : RLe(Int2Rat(200), window[j][2])})

HotMonths(window) == Cardinality({j \in 1..Len(window) : RLe(Int2Rat(28), window[j][1])})

\* scaler_y.inverse_transform(model.predict(scaler_X.transform(window)))[0][0]:
\* the artifacts are opaque, so each model is some function of the window;
\* "flat" returns the reference energy, "seasonal" follows the window and
\* takes positive, zero and negative values
PredictReference(model, window) ==
    IF model = "flat" THEN Int2Rat(ReferenceMWh)
    ELSE Int2Rat(350 * (WetMonths(window) + HotMonths(window) - 6))

scale_factor_NoHours(capacity_mw) == RDiv(capacity_mw, Int2Rat(ReferenceMWh))

scale_factor(capacity_mw) ==
    RDiv(RMul(capacity_mw, Int2Rat(hours_per_month)), Int2Rat(ReferenceMWh))

scaled_prediction(prediction_mwh, capacity_mw) ==
    RMul(prediction_mwh, scale_factor(capacity_mw))

LowerBound_Wide(p) == RMul(p, Rat(80, 100))

LowerBound(p) == RMul(p, Rat(85, 100))

UpperBound(p) == RMul(p, Rat(115, 100))

SlideWindow_NoDrop(window, new_point) == Append(window, new_point)

SlideWindow_DropsNewest(window, new_point) ==
    Append(SubSeq(window, 1, Len(window) - 1), new_point)

\* np.vstack([current_sequence[1:], new_point])
SlideWindow(window, new_point) == Append(Tail(window), new_point)

source_ratio_Even(source_mw, total_mw) == Rat(5, 10)

source_ratio_NoFallback(source_mw, total_mw) ==
    IF RLt(<<0, 1>>, total_mw) THEN RDiv(source_mw, total_mw) ELSE <<0, 1>>

source_ratio(source_mw, total_mw) ==
    IF RLt(<<0, 1>>, total_mw) THEN RDiv(source_mw, total_mw) ELSE Rat(5, 10)

\* [f(x) for x in xs]
Scale(xs, r) == [j \in 1..Len(xs) |-> RMul(xs[j], r)]

\* the dict assigned to st.session_state.predictions
ForecastSeries(ms, temps, rains, mwh, lower, upper, w_ratio, g_ratio, location, scenario) ==
    LET per_hour == <<1, hours_per_month>>
        waterfall_predictions == Scale(mwh, w_ratio)
        geo_predictions == Scale(mwh, g_ratio)
    IN  [months           |-> ms,
         temperatures     |-> temps,
         rainfalls        |-> rains,
         waterfall_mw     |-> Scale(waterfall_predictions, per_hour),
         geo_mw           |-> Scale(geo_predictions, per_hour),
         total_mw         |-> Scale(mwh, per_hour),
         waterfall_mwh    |-> waterfall_predictions,
         geo_mwh          |-> geo_predictions,
         total_mwh        |-> mwh,
         confidence_lower |-> lower,
         confidence_upper |-> upper,
         total_annual_mwh |-> RSum(mwh),
         location         |-> location,
         climate_scenario |-> scenario]

\* the locals of the Generate LSTM Forecast handler when the loop is entered
ForecastLocals(N, start, scenario, gd, generator) ==
    LET climate == ClimateLoop(0, N, start, scenario,
                               [months |-> <<>>, temperatures |-> <<>>,
                                rainfalls |-> <<>>, rng |-> generator])
    IN  [forecast_months  |-> N,
         start_month_num  |-> start,
         climate_scenario |-> scenario,
         base_power_mw    |-> DictGet(gd, "P_total_MW", <<0, 1>>),
         waterfall_mw     |-> DictGet(gd, "P_waterfall_MW", <<0, 1>>),
         geo_mw           |-> DictGet(gd, "P_geo_MW", <<0, 1>>),
         location_name    |-> DictGet(gd, "location_name", "Selected Location"),
         months           |-> climate.months,
         temperatures     |-> climate.temperatures,
         rainfalls        |-> climate.rainfalls,
         current_sequence |-> historical_months(start),
         rng              |-> climate.rng]

\* no handler is running: its locals do not exist
NoLocals ==
    [forecast_months  |-> 0,
     start_month_num  |-> 0,
     climate_scenario |-> "None",
     base_power_mw    |-> <<0, 1>>,
     waterfall_mw     |-> <<0, 1>>,
     geo_mw           |-> <<0, 1>>,
     location_name    |-> "None",
     months           |-> <<>>,
     temperatures     |-> <<>>,
     rainfalls        |-> <<>>,
     current_sequence |-> <<>>]

SetLocals(r) ==
    /\ forecast_months' = r.forecast_months
    /\ start_month_num' = r.start_month_num
    /\ climate_scenario' = r.climate_scenario
    /\ base_power_mw' = r.base_power_mw
    /\ waterfall_mw' = r.waterfall_mw
    /\ geo_mw' = r.geo_mw
    /\ location_name' = r.location_name
    /\ months' = r.months
    /\ temperatures' = r.temperatures
    /\ rainfalls' = r.rainfalls
    /\ current_sequence' = r.current_sequence
    /\ i' = 0
    /\ predictions_mwh' = <<>>
    /\ confidence_lower' = <<>>
    /\ confidence_upper' = <<>>
    /\ waterfall_ratio' = <<0, 1>>
    /\ geo_ratio' = <<0, 1>>

----------------------------------------------------------------------------
(* The session: one script run at a time.                                  *)

MaxHorizon == 4

\* the sidebar settings tried in the session
SessionHorizons == SliderMin..(IF MaxHorizon < SliderMax THEN MaxHorizon ELSE SliderMax)
SessionStartMonths == {11}
SessionScenarios == {"Normal", "Hotter"}

\* a new session of a new process, with the widgets and the uploader as given
Fresh(entered, uploaded) ==
    /\ geo_data = EmptyDict
    /\ pdf_extracted = EmptyDict
    /\ predictions = EmptyDict
    /\ form = entered
    /\ TENSORFLOW_AVAILABLE \in BOOLEAN
    /\ cache = Unloaded
    /\ rng \in InitialGenerators
    /\ calculation = EmptyDict
    /\ batch_df = uploaded
    /\ results = <<>>
    /\ view = "home"
    /\ pc = "idle"
    /\ forecast_months = NoLocals.forecast_months
    /\ start_month_num = NoLocals.start_month_num
    /\ climate_scenario = NoLocals.climate_scenario
    /\ base_power_mw = NoLocals.base_power_mw
    /\ waterfall_mw = NoLocals.waterfall_mw
    /\ geo_mw = NoLocals.geo_mw
    /\ location_name = NoLocals.location_name
    /\ months = <<>>
    /\ temperatures = <<>>
    /\ rainfalls = <<>>
    /\ current_sequence = <<>>
    /\ i = 0
    /\ predictions_mwh = <<>>
    /\ confidence_lower = <<>>
    /\ confidence_upper = <<>>
    /\ waterfall_ratio = <<0, 1>>
    /\ geo_ratio = <<0, 1>>

Init == Fresh(DefaultForm, <<>>) /\ document = NoDocument

\* the Calculate Energy Potential handler for the widgets' values
Calculate(entered) ==
    /\ pc = "idle"
    /\ form' = entered
    /\ calculation' = LocalsOf(entered)
    /\ geo_data' = EstimateOf(entered)
    /\ predictions' = CalculatorPredictions(predictions, EstimateOf(entered))
    /\ results' = <<>>
    /\ view' = "calculator"
    /\ UNCHANGED <<pdf_extracted, loader, rng, document, batch_df, pc, inputs, loop>>

\* Geographic Calculator: the widgets edited and Calculate Energy Potential
\* pressed
CalculateEnergyPotential == \E entered \in SessionForms : Calculate(entered)

\* Calculate Energy Potential pressed with the widgets as they are
CalculateEnergyPotentialAsEntered == Calculate(form)

\* Geographic Calculator, Export tab: the Process All Locations button
ProcessAllLocations ==
    /\ pc = "idle"
    /\ batch_df # <<>>
    /\ results' = [k \in 1..Len(batch_df) |-> BatchResult(batch_df[k])]
    /\ calculation' = EmptyDict
    /\ view' = "batch"
    /\ UNCHANGED <<session, loader, rng, document, batch_df, pc, inputs, loop>>

\* PDF Analyzer: the Send Data to Geographic Calculator button, for the file
\* in the uploader
SendData ==
    /\ pc = "idle"
    /\ document.name # "None"
    /\ IF critical_errors(extracted_data(document)) # <<>>
       THEN /\ view' = "send_rejected"
            /\ UNCHANGED session
       ELSE /\ pdf_extracted' = extracted_data(document)
            /\ geo_data' = DictSet(geo_data, "pdf_source", document.name)
            /\ view' = "sent"
            /\ UNCHANGED <<predictions, form>>
    /\ calculation' = EmptyDict
    /\ batch_df' = <<>>
    /\ results' = <<>>
    /\ UNCHANGED <<loader, rng, document, pc, inputs, loop>>

\* the widgets as "Use PDF Data" fills them from the extracted data
FormFromPDF(data) ==
    [Form(data["location_name"], data["waterfall_height"], data["waterfall_flow"],
          data["geo_temp"], data["depth"], DefaultTurbineEfficiency,
          DefaultGeoEfficiency, DefaultCapacityFactor)
       EXCEPT !.latitude = data["latitude"], !.longitude = data["longitude"]]

\* Geographic Calculator: "Use PDF Data" selected with extracted data in the
\* session, and Calculate Energy Potential pressed on the values it fills in
CalculateFromPDF ==
    /\ Truthy(pdf_extracted)
    /\ Calculate(FormFromPDF(pdf_extracted))

\* Geographic Calculator: a click on the map
ClickOnMap ==
    /\ pc = "idle"
    /\ geo_data' = DictSet(DictSet(geo_data, "clicked_lat", ClickedPoint.lat),
                           "clicked_lng", ClickedPoint.lng)
    /\ calculation' = EmptyDict
    /\ results' = <<>>
    /\ view' = "map"
    /\ UNCHANGED <<pdf_extracted, predictions, form, loader, rng, document, batch_df,
                   pc, inputs, loop>>

\* Home: the Clear All Data button
ClearAllData ==
    /\ pc = "idle"
    /\ geo_data' = EmptyDict
    /\ pdf_extracted' = EmptyDict
    /\ predictions' = EmptyDict
    /\ calculation' = EmptyDict
    /\ batch_df' = <<>>
    /\ results' = <<>>
    /\ view' = "home"
    /\ UNCHANGED <<form, loader, rng, document, pc, inputs, loop>>

\* Time-Series Predictor: a run of the script with no button pressed
PredictorPageRun ==
    /\ pc = "idle"
    /\ \E outcome \in LoadOutcomes :
          /\ cache' = IF has_geo_data(geo_data) /\ TENSORFLOW_AVAILABLE /\ cache = Unloaded
                      THEN outcome ELSE cache
          /\ view' = PredictorOutcome(geo_data, TENSORFLOW_AVAILABLE, cache')
    /\ calculation' = EmptyDict
    /\ batch_df' = <<>>
    /\ results' = <<>>
    /\ UNCHANGED <<session, TENSORFLOW_AVAILABLE, rng, document, pc, inputs, loop>>

\* Time-Series Predictor: the Generate LSTM Forecast button, up to the loop
GenerateForecast ==
    /\ pc = "idle"
    /\ view \in ControlsViews
    /\ PredictorOutcome(geo_data, TENSORFLOW_AVAILABLE, cache) = "controls"
    /\ \E N \in SessionHorizons, start \in SessionStartMonths,
          scenario \in SessionScenarios :
          LET r == ForecastLocals(N, start, scenario, geo_data, rng)
          IN  /\ SetLocals(r)
              /\ rng' = r.rng
    /\ pc' = "rolling"
    /\ UNCHANGED <<session, loader, shown, document, view>>

StepSessionEffect_Partial ==
    /\ predictions' = DictSet(predictions, "total_mwh", predictions_mwh')
    /\ UNCHANGED <<geo_data, pdf_extracted, form>>

\* what one loop iteration does to the session state
StepSessionEffect == UNCHANGED session

RollingStep_SlidesFirst ==
    /\ pc = "rolling"
    /\ i < forecast_months
    /\ cache.model \in Models
    /\ LET new_point == <<temperatures[i + 1], rainfalls[i + 1]>>
           slid == SlideWindow(current_sequence, new_point)
           scaled == scaled_prediction(PredictReference(cache.model, slid), base_power_mw)
       IN  /\ predictions_mwh' = Append(predictions_mwh, scaled)
           /\ confidence_lower' = Append(confidence_lower, LowerBound(scaled))
           /\ confidence_upper' = Append(confidence_upper, UpperBound(scaled))
           /\ current_sequence' = slid
    /\ i' = i + 1
    /\ StepSessionEffect
    /\ UNCHANGED <<loader, rng, document, shown, view, pc, inputs, waterfall_ratio, geo_ratio>>

\* one iteration of the rolling loop
RollingStep ==
    /\ pc = "rolling"
    /\ i < forecast_months
    /\ cache.model \in Models
    /\ LET prediction_mwh == PredictReference(cache.model, current_sequence)
           scaled == scaled_prediction(prediction_mwh, base_power_mw)
           new_point == <<temperatures[i + 1], rainfalls[i + 1]>>
       IN  /\ predictions_mwh' = Append(predictions_mwh, scaled)
           /\ confidence_lower' = Append(confidence_lower, LowerBound(scaled))
           /\ confidence_upper' = Append(confidence_upper, UpperBound(scaled))
           /\ current_sequence' = SlideWindow(current_sequence, new_point)
    /\ i' = i + 1
    /\ StepSessionEffect
    /\ UNCHANGED <<loader, rng, document, shown, view, pc, inputs, waterfall_ratio, geo_ratio>>

\* a normalizer or the model raises inside an iteration (always so when
\* load_lstm_model returned no model): the run ends with the exception
RollingStepRaises ==
    /\ pc = "rolling"
    /\ i < forecast_months
    /\ SetLocals(NoLocals)
    /\ pc' = "idle"
    /\ view' = "exception"
    /\ UNCHANGED <<session, loader, rng, document, shown>>

BreakdownBySource_EarlyExit ==
    /\ pc = "rolling"
    /\ i = forecast_months - 1
    /\ waterfall_ratio' = source_ratio(waterfall_mw, base_power_mw)
    /\ geo_ratio' = source_ratio(geo_mw, base_power_mw)
    /\ pc' = "store"
    /\ UNCHANGED <<session, loader, rng, document, shown, view, inputs, i, current_sequence,
                   predictions_mwh, confidence_lower, confidence_upper>>

\* after the loop: the breakdown by source
BreakdownBySource ==
    /\ pc = "rolling"
    /\ i = forecast_months
    /\ waterfall_ratio' = source_ratio(waterfall_mw, base_power_mw)
    /\ geo_ratio' = source_ratio(geo_mw, base_power_mw)
    /\ pc' = "store"
    /\ UNCHANGED <<session, loader, rng, document, shown, view, inputs, i, current_sequence,
                   predictions_mwh, confidence_lower, confidence_upper>>

StoreForecast_Merge ==
    /\ pc = "store"
    /\ LET series == ForecastSeries(months, temperatures, rainfalls,
                                    predictions_mwh, confidence_lower,
                                    confidence_upper, waterfall_ratio,
                                    geo_ratio, location_name, climate_scenario)
       IN  predictions' = [k \in DOMAIN predictions \cup DOMAIN series |->
                              IF k \in DOMAIN predictions THEN predictions[k]
                              ELSE series[k]]
    /\ SetLocals(NoLocals)
    /\ pc' = "idle"
    /\ view' = "forecast"
    /\ UNCHANGED <<geo_data, pdf_extracted, form, loader, rng, document, shown>>

\* the assignment to st.session_state.predictions, and the end of the run
StoreForecast ==
    /\ pc = "store"
    /\ predictions' = ForecastSeries(months, temperatures, rainfalls,
                                     predictions_mwh, confidence_lower,
                                     confidence_upper, waterfall_ratio,
                                     geo_ratio, location_name, climate_scenario)
    /\ SetLocals(NoLocals)
    /\ pc' = "idle"
    /\ view' = "forecast"
    /\ UNCHANGED <<geo_data, pdf_extracted, form, loader, rng, document, shown>>

Next ==
    \/ CalculateEnergyPotential
    \/ ClearAllData
    \/ PredictorPageRun
    \/ GenerateForecast
    \/ RollingStep
    \/ RollingStepRaises
    \/ BreakdownBySource
    \/ StoreForecast

Spec == Init /\ [][Next]_vars

----------------------------------------------------------------------------
(* One invocation of Generate LSTM Forecast, over every sidebar setting.   *)

\* the baselines tried: no viable source, and both sources viable
ForecastBaselines ==
    {e \in Estimates : /\ e.location_name = "My Location"
                       /\ e.has_waterfall = e.has_geothermal}

\* the loop-entry locals for every sidebar setting
ForecastRuns(gd) ==
    {ForecastLocals(N, start, scenario, gd, generator) :
        N \in SliderMin..SliderMax, start \in 1..12, scenario \in Scenarios,
        generator \in InitialGenerators}

InitForecast ==
    \E gd \in ForecastBaselines, m \in Models :
       \E r \in ForecastRuns(gd) :
           /\ geo_data = gd
           /\ pdf_extracted = EmptyDict
           /\ predictions = CalculatorPredictions(EmptyDict, gd)
           /\ form = DefaultForm
           /\ TENSORFLOW_AVAILABLE = TRUE
           /\ cache = [model |-> m, error |-> "None"]
           /\ rng = r.rng
           /\ calculation = EmptyDict
           /\ batch_df = <<>>
           /\ results = <<>>
           /\ document = NoDocument
           /\ view = "controls"
           /\ pc = "rolling"
           /\ forecast_months = r.forecast_months
           /\ start_month_num = r.start_month_num
           /\ climate_scenario = r.climate_scenario
           /\ base_power_mw = r.base_power_mw
           /\ waterfall_mw = r.waterfall_mw
           /\ geo_mw = r.geo_mw
           /\ location_name = r.location_name
           /\ months = r.months
           /\ temperatures = r.temperatures
           /\ rainfalls = r.rainfalls
           /\ current_sequence = r.current_sequence
           /\ i = 0
           /\ predictions_mwh = <<>>
           /\ confidence_lower = <<>>
           /\ confidence_upper = <<>>
           /\ waterfall_ratio = <<0, 1>>
           /\ geo_ratio = <<0, 1>>

NextForecast ==
    \/ RollingStep
    \/ RollingStepRaises
    \/ BreakdownBySource
    \/ StoreForecast

SpecForecast == InitForecast /\ [][NextForecast]_vars

----------------------------------------------------------------------------
(* The Geographic Calculator alone, over the ranges of its widgets.        *)

InitCalculator == \E entered \in CalculatorForms : Fresh(entered, <<>>) /\ document = NoDocument

NextCalculator == CalculateEnergyPotentialAsEntered

SpecCalculator == InitCalculator /\ [][NextCalculator]_vars

\* the batch analysis alone, over the uploaded files
InitBatch == \E uploaded \in BatchFrames : Fresh(DefaultForm, uploaded) /\ document = NoDocument

NextBatch == ProcessAllLocations

SpecBatch == InitBatch /\ [][NextBatch]_vars

----------------------------------------------------------------------------
(* A session around one uploaded document: the analyzer, the calculator    *)
(* fed from it, the map, the predictor and the Home page.                  *)

FlowMatches == {<<>>, <<Int2Rat(10)>>}
HeightMatches == {<<>>, <<Int2Rat(50)>>}
\* the range and single-value temperature matches of a document: none, a
\* single value below and at the threshold, a range above a single value
TempMatches ==
    {<< <<>>, <<>> >>, << <<>>, <<Int2Rat(49)>> >>, << <<>>, <<Int2Rat(50)>> >>,
     << <<<<Int2Rat(180), Int2Rat(220)>>>>, <<Int2Rat(50)>> >>}
ValidLatitude == Rat(223569, 10000)
ValidLongitude == Rat(917832, 10000)

\* every reading of the energy fields, with coordinates in range and the
\* Location Name box as it opens
EnergyDocuments ==
    {Document("report.pdf", flow, height, temp[1], temp[2], <<>>,
              <<ValidLatitude>>, <<ValidLongitude>>, "Extracted Location") :
        flow \in FlowMatches, height \in HeightMatches, temp \in TempMatches}

\* a complete document with other coordinates or another Location Name
PlaceDocuments ==
    {Document("survey.pdf", <<Int2Rat(10)>>, <<Int2Rat(50)>>, <<>>, <<>>, <<Rat(28, 10)>>,
              place[1], place[2], place[3]) :
        place \in {<<<<>>, <<>>, "Extracted Location">>,
                   <<<<Rat(1235, 10)>>, <<ValidLongitude>>, "Extracted Location">>,
                   <<<<ValidLatitude>>, <<Int2Rat(200)>>, "Extracted Location">>,
                   <<<<ValidLatitude>>, <<ValidLongitude>>, "">>,
                   <<<<ValidLatitude>>, <<ValidLongitude>>, " ">>}}

AnalyzerDocuments == EnergyDocuments \cup PlaceDocuments

InitAnalyzer == \E doc \in AnalyzerDocuments : Fresh(DefaultForm, <<>>) /\ document = doc

NextAnalyzer ==
    \/ SendData
    \/ CalculateFromPDF
    \/ ClickOnMap
    \/ ClearAllData
    \/ PredictorPageRun
    \/ GenerateForecast
    \/ RollingStep
    \/ RollingStepRaises
    \/ BreakdownBySource
    \/ StoreForecast

SpecAnalyzer == InitAnalyzer /\ [][NextAnalyzer]_vars

----------------------------------------------------------------------------
(* Properties.                                                             *)

Zero == <<0, 1>>

AllZero(xs) == \A j \in 1..Len(xs) : xs[j] = Zero

\* the forward climate points of the running invocation
ForwardPoints == [j \in 1..Len(temperatures) |-> <<temperatures[j], rainfalls[j]>>]

\* the window the loop holds after k iterations
WindowAfter(k) ==
    SubSeq(historical_months(start_month_num) \o ForwardPoints, k + 1, k + 12)

InLoop == pc \in {"rolling", "store"}

HasSeries == "months" \in DOMAIN predictions

SeriesKeys ==
    {"months", "temperatures", "rainfalls", "waterfall_mw", "geo_mw",
     "total_mw", "waterfall_mwh", "geo_mwh", "total_mwh", "confidence_lower",
     "confidence_upper", "total_annual_mwh", "location", "climate_scenario"}

\* C1: before step 0 and after every step of the rolling loop, for every
\* horizon 3..24 and start month, current_sequence has exactly 12 rows of
\* 2 features.
C1_WindowShape ==
    InLoop => /\ Len(current_sequence) = 12
              /\ \A j \in 1..Len(current_sequence) : Len(current_sequence[j]) = 2

C1_Witness ==
    /\ pc = "rolling"
    /\ forecast_months = SliderMax
    /\ i = SliderMax
    /\ start_month_num = 12

\* C2: after k iterations the window is the last 12 entries of the seed
\* window followed by forward points 0..k-1; every row is a seed month or a
\* forward climate point, never a prediction.
C2_WindowSlides ==
    InLoop => /\ current_sequence = WindowAfter(i)
              /\ \A j \in 1..Len(current_sequence) :
                    \/ \E m \in 1..12 :
                          current_sequence[j] = historical_months(start_month_num)[m]
                    \/ \E k \in 1..i : current_sequence[j] = ForwardPoints[k]

C2_Witness ==
    /\ pc = "rolling"
    /\ i = 13
    /\ current_sequence[1] = ForwardPoints[2]
    /\ current_sequence[12] = ForwardPoints[13]

\* C3: whenever predictions holds a forecast series, its total_annual_mwh is
\* the sum of its total_mwh.
C3_TotalIsSumOfSteps ==
    HasSeries => predictions["total_annual_mwh"] = RSum(predictions["total_mwh"])

\* C4: for every step of every forecast, confidence_lower is 0.85 times and
\* confidence_upper 1.15 times that step's predicted energy.
C4_FixedBand ==
    /\ InLoop =>
          /\ Len(confidence_lower) = Len(predictions_mwh)
          /\ Len(confidence_upper) = Len(predictions_mwh)
          /\ \A j \in 1..Len(predictions_mwh) :
                /\ confidence_lower[j] = RMul(predictions_mwh[j], <<17, 20>>)
                /\ confidence_upper[j] = RMul(predictions_mwh[j], <<23, 20>>)
    /\ view = "forecast" =>
          /\ Len(predictions["confidence_lower"]) = Len(predictions["total_mwh"])
          /\ Len(predictions["confidence_upper"]) = Len(predictions["total_mwh"])
          /\ \A j \in 1..Len(predictions["total_mwh"]) :
                /\ predictions["confidence_lower"][j]
                      = RMul(predictions["total_mwh"][j], <<17, 20>>)
                /\ predictions["confidence_upper"][j]
                      = RMul(predictions["total_mwh"][j], <<23, 20>>)

C4_Witness ==
    /\ view = "forecast"
    /\ Len(predictions["total_mwh"]) = SliderMax
    /\ \E j, k \in 1..SliderMax :
          /\ predictions["total_mwh"][j][1] > 0
          /\ predictions["total_mwh"][k][1] < 0
          /\ predictions["confidence_lower"][k][1] < 0

\* C5: every predicted energy is the denormalized model output for the window
\* of that step times (P_total_MW * 730) / 3500, the same factor at every
\* step, and the step's power is that energy divided by 730.
C5_CapacityScaling ==
    /\ pc = "rolling" /\ i > 0 =>
          predictions_mwh[i]
             = RMul(PredictReference(cache.model, WindowAfter(i - 1)),
                    RDiv(RMul(geo_data["P_total_MW"], <<730, 1>>), <<3500, 1>>))
    /\ pc = "store" =>
          \A j \in 1..forecast_months :
             predictions_mwh[j]
                = RMul(PredictReference(cache.model, WindowAfter(j - 1)),
                       RDiv(RMul(geo_data["P_total_MW"], <<730, 1>>), <<3500, 1>>))
    /\ view = "forecast" =>
          /\ Len(predictions["total_mw"]) = Len(predictions["total_mwh"])
          /\ \A j \in 1..Len(predictions["total_mwh"]) :
                predictions["total_mw"][j]
                   = RDiv(predictions["total_mwh"][j], <<730, 1>>)

C5_Witness ==
    /\ pc = "store"
    /\ forecast_months = SliderMax
    /\ geo_data["P_total_MW"][1] > 0
    /\ cache.model = "seasonal"
    /\ \E j, k \in 1..SliderMax : predictions_mwh[j] # predictions_mwh[k]

\* C6: with P_total_MW = 0 the loop still runs every step, every predicted
\* energy, confidence bound and power value is 0, and both partition ratios
\* are 0.5.
C6_ZeroCapacity ==
    /\ (InLoop /\ geo_data["P_total_MW"] = Zero) =>
          /\ AllZero(predictions_mwh)
          /\ AllZero(confidence_lower)
          /\ AllZero(confidence_upper)
          /\ pc = "store" =>
                /\ Len(predictions_mwh) = forecast_months
                /\ waterfall_ratio = <<1, 2>>
                /\ geo_ratio = <<1, 2>>
    /\ (view = "forecast" /\ geo_data["P_total_MW"] = Zero) =>
          /\ Len(predictions["total_mwh"]) = Len(predictions["months"])
          /\ AllZero(predictions["total_mwh"])
          /\ AllZero(predictions["total_mw"])
          /\ AllZero(predictions["confidence_lower"])
          /\ AllZero(predictions["confidence_upper"])
          /\ AllZero(predictions["waterfall_mwh"])
          /\ AllZero(predictions["geo_mwh"])
          /\ predictions["total_annual_mwh"] = Zero

C6_Witness ==
    /\ view = "forecast"
    /\ geo_data["P_total_MW"] = Zero
    /\ Len(predictions["total_mwh"]) = SliderMax

\* C7 as stated: no forecast series is stored for an estimate in which both
\* sources fail viability (P_total_MW = 0).
C7_ZeroEstimateBlocked ==
    view = "forecast" => geo_data["P_total_MW"][1] > 0

\* C7 amended: the predictor stops at its gate only while geo_data holds no
\* P_total_MW; an estimate with P_total_MW = 0 passes the gate and the series
\* generated for it is stored, with every predicted energy 0.
C7_GateNeedsOnlyAnEstimate ==
    /\ view = "gate" => "P_total_MW" \notin DOMAIN geo_data
    /\ (view \in ControlsViews \/ pc # "idle") => "P_total_MW" \in DOMAIN geo_data
    /\ (view = "forecast" /\ geo_data["P_total_MW"] = Zero) =>
          /\ HasSeries
          /\ Len(predictions["total_mwh"]) >= SliderMin
          /\ AllZero(predictions["total_mwh"])

C7_Witness ==
    /\ view = "forecast"
    /\ geo_data["P_total_MW"] = Zero
    /\ ~geo_data["has_waterfall"]
    /\ ~geo_data["has_geothermal"]
    /\ HasSeries

\* C8: if load_lstm_model failed, whatever the exception's message, the page
\* stops before the forecast controls and no forecast step runs.
C8_LoadFailureStopsPage ==
    (cache.error # "unloaded" /\ cache.model = "None") =>
        /\ view \notin ControlsViews
        /\ pc = "idle"

\* C9: while Generate LSTM Forecast runs, session predictions change only in
\* the final store after all N steps; a run that ends in an exception leaves
\* them as they were.
C9_NoPartialSeries ==
    [][pc # "idle" =>
          \/ /\ pc = "store"
             /\ Len(predictions_mwh) = forecast_months
             /\ Len(predictions'["total_mwh"]) = forecast_months
          \/ predictions' = predictions]_vars

C9_Witness ==
    /\ view = "exception"
    /\ cache.model \in Models
    /\ HasSeries

\* C10: the store of Generate LSTM Forecast leaves in predictions exactly the
\* fields of the new series, each with the new invocation's value.
C10_ReplacedWholesale ==
    [][(pc = "store" /\ pc' = "idle") =>
          /\ DOMAIN predictions' = SeriesKeys
          /\ predictions'["location"] = location_name
          /\ predictions'["climate_scenario"] = climate_scenario
          /\ predictions'["total_annual_mwh"] = RSum(predictions_mwh)
          /\ Len(predictions'["waterfall_mw"]) = forecast_months
          /\ Len(predictions'["geo_mw"]) = forecast_months
          /\ predictions'["months"] = months
          /\ predictions'["temperatures"] = temperatures
          /\ predictions'["rainfalls"] = rainfalls
          /\ predictions'["total_mwh"] = predictions_mwh
          /\ predictions'["confidence_lower"] = confidence_lower
          /\ predictions'["confidence_upper"] = confidence_upper
          /\ predictions'["waterfall_mwh"] = Scale(predictions_mwh, waterfall_ratio)
          /\ predictions'["geo_mwh"] = Scale(predictions_mwh, geo_ratio)]_vars

C10_Witness ==
    /\ view = "forecast"
    /\ DOMAIN predictions = SeriesKeys
    /\ predictions["climate_scenario"] = "Hotter"
    /\ predictions["location"] = "Site B"
    /\ Len(predictions["waterfall_mw"]) = MaxHorizon

PerStepKeys ==
    {"months", "temperatures", "rainfalls", "total_mwh", "total_mw",
     "confidence_lower", "confidence_upper"}

\* C11: the store of Generate LSTM Forecast leaves months, temperatures,
\* rainfalls, total_mwh, total_mw, confidence_lower and confidence_upper all
\* of length N, the requested horizon, and every stored series has these
\* seven of one length between 3 and 24.
C11_SeriesLengths ==
    /\ [][(pc = "store" /\ pc' = "idle") =>
             /\ forecast_months \in SliderMin..SliderMax
             /\ \A k \in PerStepKeys : Len(predictions'[k]) = forecast_months]_vars
    /\ [](HasSeries =>
             /\ Len(predictions["months"]) \in SliderMin..SliderMax
             /\ \A k \in PerStepKeys :
                   Len(predictions[k]) = Len(predictions["months"]))

C11_Witness ==
    /\ view = "forecast"
    /\ Len(predictions["months"]) = SliderMax
    /\ Len(predictions["confidence_upper"]) = SliderMax
    /\ Len(predictions["total_mw"]) = SliderMax

\* predictions holds a series as Generate LSTM Forecast stored it
IntactSeries ==
    /\ DOMAIN predictions = SeriesKeys
    /\ Len(predictions["waterfall_mw"]) = Len(predictions["months"])

\* C12: when Generate LSTM Forecast stores a series while predictions still
\* holds the series of an earlier invocation with the same start month,
\* horizon, scenario, baseline and model, the two series are identical; and
\* the climate of step k is the table value times the scenario multiplier
\* times the jitter of seed 42 + k, whatever the generator held before.
C12_SameInputsSameSeries ==
    /\ [][(/\ pc = "store" /\ pc' = "idle"
           /\ IntactSeries
           /\ predictions["months"] = months
           /\ predictions["climate_scenario"] = climate_scenario)
             => predictions' = predictions]_vars
    /\ [](InLoop =>
             /\ Len(temperatures) = forecast_months
             /\ Len(rainfalls) = forecast_months
             /\ \A k \in 1..forecast_months :
                   /\ temperatures[k]
                         = ForecastTemp(start_month_num, climate_scenario, k - 1)
                   /\ rainfalls[k]
                         = ForecastRain(start_month_num, climate_scenario, k - 1))

C12_Witness ==
    /\ pc = "store"
    /\ IntactSeries
    /\ predictions["months"] = months
    /\ predictions["climate_scenario"] = climate_scenario
    /\ predictions["temperatures"] = temperatures
    /\ predictions["total_mwh"] = predictions_mwh
    /\ \E k \in 1..Len(predictions_mwh) : predictions_mwh[k][1] # 0
    /\ rng.seed = 41 + forecast_months
    /\ rng.drawn = 2

\* the page shows the results of Calculate Energy Potential
Shown == view = "calculator"

\* x as a rational number lies in [n, n + 1)
FloorIs(x, n) == RLe(Int2Rat(n), x) /\ RLt(x, Int2Rat(n + 1))

\* C13: the geothermal power Calculate computes is zero for every temperature
\* below 50 C, strictly positive for every temperature of 50 C or more, and
\* strictly greater for a higher temperature (same efficiency and capacity
\* factor).
C13_GeothermalFromFifty ==
    Shown =>
        /\ RLt(calculation.geo_temp, <<50, 1>>) => calculation.P_geo_MW = Zero
        /\ RLe(<<50, 1>>, calculation.geo_temp) =>
              /\ calculation.P_geo_MW[1] > 0
              /\ \A hotter \in CalculatorTemps :
                    RLt(calculation.geo_temp, hotter) =>
                       RLt(calculation.P_geo_MW,
                           CalculateLocals(calculation.waterfall_height,
                                           calculation.waterfall_flow, hotter,
                                           calculation.depth,
                                           calculation.turbine_efficiency,
                                           calculation.geo_efficiency,
                                           calculation.capacity_factor).P_geo_MW)

\* C14: with flow Q > 0 and height H > 0 the waterfall power is
\* 1000 * 9.81 * Q * H * eta / 1e6 MW and its annual energy power * 24 * 365;
\* with Q = 0 or H = 0 its power, energy and households are 0; Q = 10,
\* H = 50, eta = 0.9 gives 4.4145 MW.
C14_WaterfallPower ==
    Shown =>
        LET Q == calculation.waterfall_flow
            H == calculation.waterfall_height
            eta == calculation.turbine_efficiency
        IN  /\ (Q[1] > 0 /\ H[1] > 0) =>
                  /\ calculation.P_waterfall_MW
                        = RMul(RMul(RMul(Q, H), eta), <<981, 100000>>)
                  /\ calculation.E_waterfall_year_MWh
                        = RMul(calculation.P_waterfall_MW, <<8760, 1>>)
            /\ (Q = Zero \/ H = Zero) =>
                  /\ calculation.P_waterfall_MW = Zero
                  /\ calculation.E_waterfall_year_MWh = Zero
                  /\ calculation.households_waterfall = 0
            /\ (Q = <<10, 1>> /\ H = <<50, 1>> /\ eta = <<9, 10>>) =>
                  calculation.P_waterfall_MW = <<8829, 2000>>
            /\ geo_data["P_waterfall_MW"] = calculation.P_waterfall_MW
            /\ geo_data["E_waterfall_year_MWh"] = calculation.E_waterfall_year_MWh

C14_Witness ==
    /\ Shown
    /\ calculation.waterfall_flow = <<10, 1>>
    /\ calculation.waterfall_height = <<50, 1>>
    /\ calculation.turbine_efficiency = <<9, 10>>
    /\ geo_data["P_waterfall_MW"] = <<8829, 2000>>
    /\ calculation.households_waterfall > 0

\* C15: the recovered waste energy is 0.05 times the sum of the waterfall and
\* geothermal annual energies (0 when both are 0), the total annual energy is
\* the sum of the three, and the total power is the sum of the two source
\* powers.
C15_WasteAndTotals ==
    Shown =>
        LET sources == RAdd(calculation.E_waterfall_year_MWh, calculation.E_geo_year_MWh)
        IN  /\ RMul(calculation.E_waste_recovered_MWh, <<20, 1>>) = sources
            /\ sources = Zero => calculation.E_waste_recovered_MWh = Zero
            /\ calculation.E_total_year_MWh
                  = RAdd(sources, calculation.E_waste_recovered_MWh)
            /\ calculation.P_total_MW
                  = RAdd(calculation.P_waterfall_MW, calculation.P_geo_MW)
            /\ geo_data["E_waste_recovered_MWh"] = calculation.E_waste_recovered_MWh
            /\ geo_data["E_total_year_MWh"] = calculation.E_total_year_MWh
            /\ geo_data["P_total_MW"] = calculation.P_total_MW

C15_Witness ==
    /\ Shown
    /\ calculation.E_waterfall_year_MWh[1] > 0
    /\ calculation.E_geo_year_MWh[1] > 0
    /\ calculation.E_waste_recovered_MWh[1] > 0
    /\ RLt(calculation.P_total_MW, calculation.E_waste_recovered_MWh)

\* C16: each households figure (waterfall, geothermal, waste, total, and the
\* total kept in geo_data) is the floor of its annual energy * 1000 / 7.2 and
\* is not negative.
C16_HouseholdsFloor ==
    Shown =>
        /\ \A pair \in {<<calculation.E_waterfall_year_MWh, calculation.households_waterfall>>,
                        <<calculation.E_geo_year_MWh, calculation.households_geo>>,
                        <<calculation.E_waste_recovered_MWh, calculation.households_waste>>,
                        <<calculation.E_total_year_MWh, calculation.households_total>>,
                        <<geo_data["E_total_year_MWh"], geo_data["households_total"]>>} :
              /\ pair[2] >= 0
              /\ FloorIs(RMul(pair[1], <<1250, 9>>), pair[2])

C16_Witness ==
    /\ Shown
    /\ calculation.households_waterfall > 0
    /\ calculation.households_geo > 0
    /\ calculation.households_waste > 0
    /\ RMul(calculation.E_total_year_MWh, <<1250, 9>>)[2] # 1
    /\ geo_data["households_total"]
          > calculation.households_waterfall + calculation.households_geo

GeothermalExample ==
    /\ Shown
    /\ calculation.geo_temp = <<200, 1>>
    /\ calculation.geo_efficiency = <<3, 20>>
    /\ calculation.capacity_factor = <<17, 20>>

\* |x - y| < eps
Near(x, y, eps) == RLt(RSub(x, y), eps) /\ RLt(RSub(y, x), eps)

\* C18 as stated: for the geothermal example the thermal power is 36575 kW,
\* the electrical power 5.486 MW to three decimals, the annual energy is
\* power * 24 * 365 * 0.85, and that is 40,868 MWh to the nearest MWh.
C18_ExampleAsStated ==
    GeothermalExample =>
        /\ calculation.thermal_power_kW = <<36575, 1>>
        /\ Near(calculation.P_geo_MW, <<5486, 1000>>, <<1, 2000>>)
        /\ calculation.E_geo_year_MWh
              = RMul(RMul(calculation.P_geo_MW, <<8760, 1>>), <<17, 20>>)
        /\ Near(calculation.E_geo_year_MWh, <<40868, 1>>, <<1, 1>>)

\* C18 amended: the same, with an annual energy of 40,850.6175 MWh, that is
\* 40,851 MWh to the nearest MWh.
C18_ExampleEnergy ==
    GeothermalExample =>
        /\ calculation.thermal_power_kW = <<36575, 1>>
        /\ Near(calculation.P_geo_MW, <<5486, 1000>>, <<1, 2000>>)
        /\ calculation.E_geo_year_MWh
              = RMul(RMul(calculation.P_geo_MW, <<8760, 1>>), <<17, 20>>)
        /\ calculation.E_geo_year_MWh = <<16340247, 400>>
        /\ Near(calculation.E_geo_year_MWh, <<40851, 1>>, <<1, 2>>)
        /\ geo_data["E_geo_year_MWh"] = calculation.E_geo_year_MWh

C18_Witness ==
    /\ GeothermalExample
    /\ calculation.has_geothermal
    /\ calculation.depth = <<3, 1>>
    /\ calculation.P_geo_MW = <<4389, 800>>

----------------------------------------------------------------------------
(* Month labels and the seed window.                                       *)

\* the calendar: the month after and the month before month m (1..12)
MonthAfter(m) == IF m = 12 THEN 1 ELSE m + 1

MonthBefore(m) == IF m = 1 THEN 12 ELSE m - 1

\* the month n months before month m
RECURSIVE MonthsBefore(_, _)
MonthsBefore(m, n) == IF n = 0 THEN m ELSE MonthsBefore(MonthBefore(m), n - 1)

\* the calendar month a label names
CalendarMonth(label) == CHOOSE m \in 1..12 : month_names[m] = label[1]

\* the labels run through consecutive calendar months, the year tag going
\* up by one from December to January and nowhere else
FollowsCalendar(labels) ==
    \A k \in 1..(Len(labels) - 1) :
        /\ CalendarMonth(labels[k + 1]) = MonthAfter(CalendarMonth(labels[k]))
        /\ labels[k + 1][2] = labels[k][2] + (IF labels[k][1] = "Dec" THEN 1 ELSE 0)

\* C19: for every start month s and horizon N in 3..24, the label of step k
\* is month ((s + k - 1) mod 12) + 1 with year tag 1 + floor((s + k - 1) / 12);
\* step 0 is the start month in Y1, consecutive labels are consecutive
\* calendar months, and the year tag goes up by one exactly from December to
\* January; the stored series carries the same labels.
C19_MonthLabels ==
    /\ InLoop =>
          /\ Len(months) = forecast_months
          /\ \A k \in 0..(forecast_months - 1) :
                /\ CalendarMonth(months[k + 1]) = ((start_month_num + k - 1) % 12) + 1
                /\ months[k + 1][2] = 1 + ((start_month_num + k - 1) \div 12)
          /\ months[1] = <<month_names[start_month_num], 1>>
          /\ FollowsCalendar(months)
    /\ HasSeries =>
          /\ predictions.months[1][2] = 1
          /\ FollowsCalendar(predictions.months)

\* start November, 15 months, stored: Nov Y1, Dec Y1, Jan Y2, ..., Dec Y2,
\* Jan Y3
C19_Witness ==
    /\ HasSeries
    /\ Len(predictions.months) = 15
    /\ SubSeq(predictions.months, 1, 3) = << <<"Nov", 1>>, <<"Dec", 1>>, <<"Jan", 2>> >>
    /\ SubSeq(predictions.months, 14, 15) = << <<"Dec", 2>>, <<"Jan", 3>> >>

\* the row of the fixed monthly table for month m, as the code reads it
TableRow(m) == <<Int2Rat(bangladesh_climate[m][1]), Int2Rat(bangladesh_climate[m][2])>>

\* C20: when the rolling loop is entered the window is the 12 calendar
\* months before the start month in chronological order, its last entry the
\* month just before the start month (December for a January start), each
\* row the fixed table's values with no scenario multiplier and no jitter;
\* the seed rows still in the window after i steps are those months.
C20_SeedWindow ==
    (InLoop /\ i <= 12) =>
        /\ \A j \in 1..(12 - i) :
              current_sequence[j] = TableRow(MonthsBefore(start_month_num, 13 - (i + j)))
        /\ i = 0 =>
              /\ Len(current_sequence) = 12
              /\ current_sequence[12] = TableRow(MonthBefore(start_month_num))
              /\ current_sequence[1] = TableRow(start_month_num)

\* a January start under the Hotter scenario, after the first step: the
\* seed rows left run February to December with the table's own values
C20_Witness ==
    /\ pc = "rolling"
    /\ i = 1
    /\ start_month_num = 1
    /\ climate_scenario = "Hotter"
    /\ current_sequence[1] = <<Int2Rat(22), Int2Rat(25)>>
    /\ current_sequence[11] = <<Int2Rat(20), Int2Rat(15)>>

----------------------------------------------------------------------------
(* The breakdown by source and the confidence band.                        *)

\* C21: in every generated series the split by source uses one ratio for all
\* steps, the baseline's P_waterfall_MW / P_total_MW and P_geo_MW / P_total_MW
\* (0.5 each for a zero baseline), and the two shares of a step add up to
\* that step's total.
C21_SplitByBaselineRatio ==
    /\ pc = "store" =>
          /\ RAdd(waterfall_ratio, geo_ratio) = <<1, 1>>
          /\ geo_data["P_total_MW"][1] > 0 =>
                /\ RMul(waterfall_ratio, geo_data["P_total_MW"]) = geo_data["P_waterfall_MW"]
                /\ RMul(geo_ratio, geo_data["P_total_MW"]) = geo_data["P_geo_MW"]
    /\ HasSeries =>
          /\ Len(predictions["waterfall_mwh"]) = Len(predictions["total_mwh"])
          /\ Len(predictions["geo_mwh"]) = Len(predictions["total_mwh"])
          /\ \A j \in 1..Len(predictions["total_mwh"]) :
                /\ RAdd(predictions["waterfall_mwh"][j], predictions["geo_mwh"][j])
                      = predictions["total_mwh"][j]
                /\ geo_data["P_total_MW"][1] > 0 =>
                      /\ predictions["waterfall_mwh"][j]
                            = RMul(predictions["total_mwh"][j],
                                   RDiv(geo_data["P_waterfall_MW"], geo_data["P_total_MW"]))
                      /\ predictions["geo_mwh"][j]
                            = RMul(predictions["total_mwh"][j],
                                   RDiv(geo_data["P_geo_MW"], geo_data["P_total_MW"]))

C21_Witness ==
    /\ HasSeries
    /\ geo_data["P_waterfall_MW"][1] > 0
    /\ geo_data["P_geo_MW"][1] > 0
    /\ Len(predictions["total_mwh"]) = SliderMax
    /\ \E j \in 1..SliderMax :
          /\ predictions["total_mwh"][j][1] # 0
          /\ predictions["waterfall_mwh"][j] # predictions["geo_mwh"][j]

\* C27: for every step of every forecast, confidence_lower <= predicted
\* energy <= confidence_upper, whatever the model and the output normalizer
\* return, zero and negative values included.
C27_BandEnclosesPrediction ==
    /\ InLoop =>
          \A j \in 1..Len(predictions_mwh) :
              /\ RLe(confidence_lower[j], predictions_mwh[j])
              /\ RLe(predictions_mwh[j], confidence_upper[j])
    /\ HasSeries =>
          \A j \in 1..Len(predictions["total_mwh"]) :
              /\ RLe(predictions["confidence_lower"][j], predictions["total_mwh"][j])
              /\ RLe(predictions["total_mwh"][j], predictions["confidence_upper"][j])

----------------------------------------------------------------------------
(* What a step's prediction depends on.                                    *)

\* the 12 months before the start month, from the fixed table
SeedRows(start) == [j \in 1..12 |-> TableRow(MonthsBefore(start, 13 - j))]

\* the model's input at step j (1-based): the last 12 entries of the seed
\* rows followed by the forward points before step j
InputOfStep(start, forward, j) ==
    SubSeq(SeedRows(start) \o SubSeq(forward, 1, j - 1), j, j + 11)

\* the loop-entry window of an invocation with the same horizon, start month
\* and baseline under another scenario
EntryWindowUnder(scenario) ==
    ForecastLocals(forecast_months, start_month_num, scenario, geo_data,
                   [seed |-> 42, drawn |-> 0]).current_sequence

\* C28: the prediction of step j is one function of the model, the capacity,
\* the seed window and the forward points before j: invocations that differ
\* only in the scenario, or in forward points from j on, predict the same at
\* step j; the step-0 prediction is the same under every scenario, and the
\* last forward point enters no prediction.
C28_DependsOnEarlierPointsOnly ==
    /\ (pc = "rolling" /\ i >= 1) =>
          predictions_mwh[i]
             = scaled_prediction(
                  PredictReference(cache.model,
                                   InputOfStep(start_month_num, ForwardPoints, i)),
                  geo_data["P_total_MW"])
    /\ (pc = "rolling" /\ i = 1) =>
          \A scenario \in Scenarios :
             predictions_mwh[1]
                = scaled_prediction(
                     PredictReference(cache.model, EntryWindowUnder(scenario)),
                     geo_data["P_total_MW"])
    /\ pc = "store" =>
          LET rows == SeedRows(start_month_num) \o SubSeq(ForwardPoints, 1, forecast_months - 1)
          IN  /\ ForwardPoints[forecast_months] \notin {rows[k] : k \in 1..Len(rows)}
              /\ \A j \in 1..forecast_months :
                    predictions_mwh[j]
                       = scaled_prediction(
                            PredictReference(cache.model, SubSeq(rows, j, j + 11)),
                            geo_data["P_total_MW"])

\* a September start under Hotter: the first forward point is a hot month
\* the Normal scenario does not have, and the series differs later on
C28_Witness ==
    /\ pc = "store"
    /\ start_month_num = 9
    /\ climate_scenario = "Hotter"
    /\ cache.model = "seasonal"
    /\ geo_data["P_total_MW"][1] > 0
    /\ RLe(Int2Rat(28), temperatures[1])
    /\ \E j \in 2..forecast_months : predictions_mwh[j] # predictions_mwh[1]

----------------------------------------------------------------------------
(* Batch analysis against the interactive calculation.                     *)

\* the tier a pipe material names: 0 for N/A
Tier(material) ==
    CASE material \in {"Stainless Steel", "Stainless Steel / Incoloy"} -> 1
      [] material \in {"Inconel alloys", "Inconel alloys / Nickel-chromium"} -> 2
      [] material \in {"Ceramic composites",
                       "Ceramic composites / SiC / Titanium alloys"} -> 3
      [] material = "N/A" -> 0

\* what Calculate Energy Potential computes for a row with the sliders at
\* their defaults
InteractiveFor(row) ==
    CalculateLocals(row.waterfall_height_m, row.waterfall_flow_m3s, row.geo_temp_c,
                    row.depth_km, DefaultTurbineEfficiency, DefaultGeoEfficiency,
                    DefaultCapacityFactor)

\* C30: for every row, the batch analysis reports the waterfall power and
\* geothermal power of the interactive calculation (default sliders) rounded
\* to two decimals, its total annual energy rounded to a whole number, the
\* same households and the same pipe-material tier.
C30_BatchMatchesInteractive ==
    view = "batch" =>
        /\ Len(results) = Len(batch_df)
        /\ \A k \in 1..Len(results) :
              LET c == InteractiveFor(batch_df[k])
              IN  /\ results[k].Waterfall_MW = Round2(c.P_waterfall_MW)
                  /\ results[k].Geothermal_MW = Round2(c.P_geo_MW)
                  /\ results[k].Total_Annual_MWh = Int2Rat(RoundHalfEven(c.E_total_year_MWh))
                  /\ results[k].Households = c.households_total
                  /\ Tier(results[k].Pipe_Material) = Tier(c.pipe_material)

\* a file of two rows: both sources at 300 C, and geothermal alone at 600 C
C30_Witness ==
    /\ view = "batch"
    /\ Len(results) = 2
    /\ batch_df[1].geo_temp_c = <<300, 1>>
    /\ batch_df[1].waterfall_height_m = <<50, 1>>
    /\ results[1].Waterfall_MW = <<441, 100>>
    /\ results[1].Pipe_Material = "Inconel alloys"
    /\ batch_df[2].geo_temp_c = <<600, 1>>
    /\ batch_df[2].waterfall_height_m = <<0, 1>>
    /\ results[2].Waterfall_MW = <<0, 1>>
    /\ results[2].Pipe_Material = "Ceramic composites"
    /\ results[2].Households > 0

----------------------------------------------------------------------------
(* The forecast held in the session against the other pages.               *)

\* Home shows "Predictions Generated" and the Comparison tab an LSTM
\* predicted energy
TotalShown == Truthy(predictions) /\ "total_annual_mwh" \in DOMAIN predictions

\* C25: predictions holds total_annual_mwh only if a Generate LSTM Forecast
\* has completed since the last Clear All Data (its series is then stored:
\* only the store writes the key months and only Clear All Data removes it),
\* and the value is that forecast's total.
C25_TotalMeansForecast ==
    TotalShown =>
        /\ HasSeries
        /\ predictions["total_annual_mwh"] = RSum(predictions["total_mwh"])

\* C26: a stored series belongs to the baseline now in geo_data: its
\* location is the baseline's, it is all zero when the baseline's capacity
\* is zero, and its split by source is the baseline's P_waterfall_MW and
\* P_geo_MW over P_total_MW.
C26_SeriesOfCurrentBaseline ==
    HasSeries =>
        /\ predictions["location"] = geo_data["location_name"]
        /\ geo_data["P_total_MW"] = Zero => AllZero(predictions["total_mwh"])
        /\ geo_data["P_total_MW"][1] > 0 =>
              \A j \in 1..Len(predictions["total_mwh"]) :
                  /\ predictions["waterfall_mwh"][j]
                        = RMul(predictions["total_mwh"][j],
                               RDiv(geo_data["P_waterfall_MW"], geo_data["P_total_MW"]))
                  /\ predictions["geo_mwh"][j]
                        = RMul(predictions["total_mwh"][j],
                               RDiv(geo_data["P_geo_MW"], geo_data["P_total_MW"]))

----------------------------------------------------------------------------
(* The PDF analyzer's send validation.                                     *)

\* a coordinate read from the document lies outside its bounds
OutOfBounds(doc) ==
    \/ /\ doc.lat_match # <<>>
       /\ ~(RLe(Int2Rat(-90), doc.lat_match[1]) /\ RLe(doc.lat_match[1], Int2Rat(90)))
    \/ /\ doc.lon_match # <<>>
       /\ ~(RLe(Int2Rat(-180), doc.lon_match[1]) /\ RLe(doc.lon_match[1], Int2Rat(180)))

\* C22: when a coordinate extracted from the document is outside the valid
\* bounds (latitude outside [-90, 90], longitude outside [-180, 180]), Send
\* Data to Geographic Calculator is rejected and pdf_extracted is not updated.
C22_OutOfBoundsRejected ==
    OutOfBounds(document) => view # "sent" /\ pdf_extracted = EmptyDict

ExtractedKeys ==
    {"waterfall_flow", "waterfall_height", "geo_temp", "depth", "location_name",
     "latitude", "longitude"}

\* a waterfall with flow and height, or a geothermal temperature from 50 C
ViableSource(flow, height, temp) ==
    \/ RLt(Zero, flow) /\ RLt(Zero, height)
    \/ RLe(Int2Rat(50), temp)

\* C23: pdf_extracted is either empty or a mapping the send validation
\* accepted: it has the seven keys, a non-blank location_name and at least
\* one viable source; and a send is blocked only by a blank name or by the
\* lack of a viable source, never by the incomplete-waterfall warning alone.
C23_OnlyAcceptedDataHeld ==
    /\ Truthy(pdf_extracted) =>
          /\ DOMAIN pdf_extracted = ExtractedKeys
          /\ ~Blank(pdf_extracted["location_name"])
          /\ ViableSource(pdf_extracted["waterfall_flow"],
                          pdf_extracted["waterfall_height"],
                          pdf_extracted["geo_temp"])
    /\ view = "send_rejected" =>
          \/ Blank(document.location_name)
          \/ ~ViableSource(waterfall_flow(document), waterfall_height(document),
                           avg_temp(document))

\* a document with a flow rate but no height and a temperature of 50 C or
\* more was sent
C23_Witness ==
    /\ view = "sent"
    /\ Truthy(pdf_extracted)
    /\ RLt(Zero, pdf_extracted["waterfall_flow"])
    /\ pdf_extracted["waterfall_height"] = Zero
    /\ RLe(Int2Rat(50), pdf_extracted["geo_temp"])
    /\ validation_errors(pdf_extracted) = <<"WARNING: Incomplete waterfall data">>

\* C29: the viability decision is the same everywhere: the send validation
\* accepts a source as viable exactly when Calculate gives that source
\* non-zero power, so extracted data that passed validation and is used
\* unchanged through "Use PDF Data" yields P_total_MW > 0.
C29_ViabilityAgrees ==
    (view = "calculator" /\ Truthy(pdf_extracted)) =>
        /\ has_waterfall(pdf_extracted) <=> RLt(Zero, geo_data["P_waterfall_MW"])
        /\ has_geothermal(pdf_extracted) <=> RLt(Zero, geo_data["P_geo_MW"])
        /\ RLt(Zero, geo_data["P_total_MW"])

----------------------------------------------------------------------------
(* The predictor's gate across the pages.                                  *)

EstimateHeld == "P_total_MW" \in DOMAIN geo_data

\* views a run of the predictor script ends in
PredictorViews == {"gate", "no_tensorflow", "load_error"} \cup ControlsViews

\* C24: Generate LSTM Forecast runs only in a session state whose geo_data
\* contains P_total_MW, and P_total_MW enters geo_data only by a completed
\* Calculate Energy Potential; Clear All Data empties geo_data, pdf_extracted
\* and predictions together, and while geo_data holds no P_total_MW (whatever
\* else Send or a map click put there) the predictor page stops at its gate.
C24_GenerateNeedsCalculate ==
    /\ [](pc # "idle" => EstimateHeld)
    /\ [](view \in PredictorViews => (view = "gate" <=> ~EstimateHeld))
    /\ [][(pc = "idle" /\ pc' = "rolling") => EstimateHeld /\ view \in ControlsViews]_vars
    /\ [][(~EstimateHeld /\ EstimateHeld') =>
             /\ view' = "calculator"
             /\ calculation' # EmptyDict
             /\ geo_data'["P_total_MW"] = calculation'["P_total_MW"]]_vars
    /\ [][view' = "home" =>
             /\ geo_data' = EmptyDict
             /\ pdf_extracted' = EmptyDict
             /\ predictions' = EmptyDict]_vars

\* the predictor had passed its gate and loaded a model; after Clear All Data
\* and a new Send it stops at the gate, geo_data holding only the source name
C24_Witness ==
    /\ view = "gate"
    /\ cache.model \in Models
    /\ DOMAIN geo_data = {"pdf_source"}
    /\ Truthy(pdf_extracted)
    /\ predictions = EmptyDict

============================================================================
